---- MODULE Spec2Model ----
(***************************************************************************)
(* Model of the AWS NLB controller: the in-memory allocation ledger        *)
(* (store.go), the provider gateway (the aws client) and the service       *)
(* reconciler (ServiceReconciler.Reconcile).                               *)
(*                                                                         *)
(* A reconciliation pass is a process with a position (pc): one step per   *)
(* call the pass makes to the cluster, to the ledger or to the provider.   *)
(* The cluster, the provider and the process itself (restart) are the      *)
(* environment.                                                            *)
(***************************************************************************)
EXTENDS Integers, Sequences, FiniteSets, TLC

(***************************************************************************)
(* Bounds and program constants                                            *)
(***************************************************************************)

\* Service identities (namespace/name) the cluster may hold.
Services == {"ns/a", "ns/b"}

\* NLB_LIST: the configured pool, name:host pairs.
NLBs == {"lb1", "lb2"}

\* First port of the scan in GetVacantNLBAndPortForService.
FirstPort == 9000

\* Number of ports per load balancer (the code scans 9000..9049).
NumPorts == 1

\* Exclusive upper end of the scan (9050 in the code).
PortLimit == FirstPort + NumPorts

\* Provider quota: ARNs the provider hands out before it refuses to create.
MaxArns == 3

\* Transient errors the provider and the cluster return in one run.
MaxFaults == 1

\* Changes the environment makes in one run (removals, edits, restarts).
MaxEvents == 2

\* Workers of the controller when it is configured to run passes concurrently.
MaxConcurrentReconciles == 2

\* A port outside the pool, where an out-of-band change may put a listener.
DriftPort == PortLimit + 5

VARIABLES
    NlbAllocationMap,      \* store: nlb -> (port -> owner), a partial map per nlb
    ServiceAllocationMap,  \* store: service -> Allocation, a partial map
    cluster,               \* cluster: service -> service object, a partial map
    listeners,             \* provider: the listeners that exist
    targetGroups,          \* provider: the target groups that exist
    nextArn,               \* provider: next ARN to hand out
    pass,                  \* per service: the position and locals of its pass
    workers,               \* number of passes the controller runs at once
    faults,                \* transient errors the provider and the cluster may still return
    events                 \* changes the environment may still make

vars == <<NlbAllocationMap, ServiceAllocationMap, cluster, listeners,
          targetGroups, nextArn, pass, workers, faults, events>>

storeVars == <<NlbAllocationMap, ServiceAllocationMap>>
awsVars == <<listeners, targetGroups, nextArn>>

(***************************************************************************)
(* Small helpers                                                           *)
(***************************************************************************)

\* The empty Go map.
EmptyMap == [x \in {} |-> x]

\* m without key k (Go: delete(m, k)).
MapDelete(m, k) == [x \in (DOMAIN m) \ {k} |-> m[x]]

\* m with m[k] = v (Go: m[k] = v).
MapPut(m, k, v) == (k :> v) @@ m

\* Ports of the scan loop, in ascending order.
Ports == FirstPort .. (PortLimit - 1)

\* Smallest element of a non-empty set of integers.
Min(S) == CHOOSE x \in S : \A y \in S : x <= y

(***************************************************************************)
(* strconv.Itoa / strconv.Atoi on the port annotation                      *)
(***************************************************************************)

\* The decimal digits, as characters.
Digits == <<"0", "1", "2", "3", "4", "5", "6", "7", "8", "9">>

\* Value of a digit character.
DigitVal(c) == CHOOSE i \in 0..9 : Digits[i + 1] = c

\* TRUE iff c is a digit character.
IsDigit(c) == \E i \in 0..9 : Digits[i + 1] = c

RECURSIVE ItoaNat(_)
\* Decimal representation of a natural number.
ItoaNat(n) == IF n < 10 THEN <<Digits[n + 1]>>
              ELSE ItoaNat(n \div 10) \o <<Digits[(n % 10) + 1]>>

\* strconv.Itoa: the decimal string of an integer.
Itoa(n) == IF n < 0 THEN <<"-">> \o ItoaNat(0 - n) ELSE ItoaNat(n)

RECURSIVE DigitsValue(_, _)
\* Value of a sequence of digit characters, given the value read so far.
DigitsValue(str, acc) == IF str = <<>> THEN acc
                         ELSE DigitsValue(Tail(str), acc * 10 + DigitVal(Head(str)))

\* strconv.Atoi: an optional sign followed by at least one digit, else an error.
Atoi(str) ==
    LET signed == str # <<>> /\ Head(str) \in {"+", "-"}
        body == IF signed THEN Tail(str) ELSE str
    IN  IF body = <<>> \/ \E i \in 1..Len(body) : ~IsDigit(body[i])
        THEN [err |-> "invalid syntax", val |-> 0]
        ELSE [err |-> "",
              val |-> IF signed /\ Head(str) = "-" THEN 0 - DigitsValue(body, 0)
                      ELSE DigitsValue(body, 0)]

(***************************************************************************)
(* The allocation ledger (store.go).  A ledger value is [nm, sm]: nm is    *)
(* NlbAllocationMap, sm is ServiceAllocationMap.                           *)
(***************************************************************************)

\* store.Allocation
Allocation(nlb, port, svc, listenerArn, targetArn) ==
    [ListenerArn |-> listenerArn, TargetArn |-> targetArn, NLB |-> nlb,
     Port |-> port, ServiceNamespacedName |-> svc]

\* loadNlbData: one empty port map per configured load balancer.
loadNlbData == [n \in NLBs |-> EmptyMap]

\* store.New: the ledger after construction.
New == [nm |-> loadNlbData, sm |-> EmptyMap]

\* Reading s.NlbAllocationMap[nlb]: a missing key reads as the nil map.
PortsOf(st, nlb) == IF nlb \in DOMAIN st.nm THEN st.nm[nlb] ELSE EmptyMap

\* store.GetAllocationForSVC: present is FALSE for the nil pointer.
GetAllocationForSVC(st, name) ==
    IF name \in DOMAIN st.sm THEN [present |-> TRUE, alloc |-> st.sm[name]]
    ELSE [present |-> FALSE, alloc |-> Allocation("", 0, "", 0, 0)]

\* AssignNLBAndPortToServiceInNamespace with a slip: the owner of the pair is
\* not looked at, so the pair of another service is overwritten.
AssignNLBAndPortToServiceInNamespace_Overwrites(st, nlb, port, svc, listenerArn, targetArn) ==
    LET value == Allocation(nlb, port, svc, listenerArn, targetArn)
    IN  IF nlb \notin DOMAIN st.nm
        THEN [err |-> "", owner |-> "", panic |-> TRUE,
              st |-> [st EXCEPT !.sm = MapPut(st.sm, svc, value)]]
        ELSE [err |-> "", owner |-> "", panic |-> FALSE,
              st |-> [nm |-> [st.nm EXCEPT ![nlb] = MapPut(st.nm[nlb], port, svc)],
                      sm |-> MapPut(st.sm, svc, value)]]

\* store.AssignNLBAndPortToServiceInNamespace (reserve).  A write to the port
\* map of a load balancer that is not in the pool is a write to a nil map: the
\* process panics.
AssignNLBAndPortToServiceInNamespace(st, nlb, port, svc, listenerArn, targetArn) ==
    LET ports == PortsOf(st, nlb)
        value == Allocation(nlb, port, svc, listenerArn, targetArn)
    IN  IF port \in DOMAIN ports /\ ports[port] # svc
        THEN [err |-> "port reserved for svc", owner |-> ports[port],
              panic |-> FALSE, st |-> st]
        ELSE IF nlb \notin DOMAIN st.nm
        THEN [err |-> "", owner |-> "", panic |-> TRUE,
              st |-> [st EXCEPT !.sm = MapPut(st.sm, svc, value)]]
        ELSE [err |-> "", owner |-> "", panic |-> FALSE,
              st |-> [nm |-> [st.nm EXCEPT ![nlb] = MapPut(ports, port, svc)],
                      sm |-> MapPut(st.sm, svc, value)]]

\* ReleaseNLBAndPortForService with a slip: the Allocation is dropped but the
\* pair stays occupied in NlbAllocationMap.
ReleaseNLBAndPortForService_KeepsPair(st, svc, nlb, port) ==
    IF svc \in DOMAIN st.sm THEN [st EXCEPT !.sm = MapDelete(st.sm, svc)] ELSE st

\* store.ReleaseNLBAndPortForService (release): frees the pair of the
\* service's Allocation, if it has one.  The nlb and port arguments are unused.
ReleaseNLBAndPortForService(st, svc, nlb, port) ==
    IF svc \in DOMAIN st.sm
    THEN LET val == st.sm[svc]
         IN  [nm |-> IF val.NLB \in DOMAIN st.nm
                     THEN [st.nm EXCEPT ![val.NLB] = MapDelete(@, val.Port)]
                     ELSE st.nm,
              sm |-> MapDelete(st.sm, svc)]
    ELSE st

\* The pairs GetVacantNLBAndPortForService can return: the range over the Go
\* map visits the load balancers in an unspecified order, and the first load
\* balancer visited that has a free port yields its lowest free port.
VacantCandidates(st) ==
    {<<n, Min(Ports \ DOMAIN st.nm[n])>> :
        n \in {m \in DOMAIN st.nm : Ports \ DOMAIN st.nm[m] # {}}}

\* The write of GetVacantNLBAndPortForService: the pair is marked as owned by
\* the service in NlbAllocationMap only.
MarkVacant(st, nlb, port, svc) ==
    [st EXCEPT !.nm = [st.nm EXCEPT ![nlb] = MapPut(st.nm[nlb], port, svc)]]

\* store.GetNLBHost
GetNLBHost(nlb) == IF nlb \in NLBs THEN <<nlb, "host">> ELSE <<>>

(***************************************************************************)
(* The provider gateway (the aws client).  A provider value is             *)
(* [ls, gs, next]: the listeners, the target groups and the next ARN.      *)
(* ARN 0 stands for the empty string.  Each gateway call takes the SDK     *)
(* call, if any, that fails with a transient error.                        *)
(***************************************************************************)

\* The SDK calls of the gateway that can fail with a transient error.
DeleteFaults == {"DeleteListener", "DeleteTargetGroup"}
CheckFaults == {"DescribeListeners", "DescribeTargetGroups"}
CreateFaults == {"DescribeLoadBalancers", "DescribeTargetGroups", "CreateTargetGroup",
                 "DescribeInstances", "RegisterTargets", "CreateListener"}

\* The listener with the given ARN, as a set of zero or one listeners.
ListenerByArn(aws, arn) == {l \in aws.ls : l.arn = arn}

\* The target groups named after the node port (the group name is the port).
GroupsByName(aws, nodePort) == {g \in aws.gs : g.port = nodePort}

\* client.DeleteListenerAndTargetArn: the listener first, then the group.
\* The provider answers ListenerNotFound for a listener that does not exist
\* and ResourceInUse for a group that a listener still forwards to.
DeleteListenerAndTargetArn(aws, listenerArn, targetArn, fault) ==
    IF fault = "DeleteListener" THEN [err |-> "transient", aws |-> aws]
    ELSE IF ListenerByArn(aws, listenerArn) = {}
    THEN [err |-> "ListenerNotFound", aws |-> aws]
    ELSE LET a1 == [aws EXCEPT !.ls = @ \ ListenerByArn(aws, listenerArn)]
         IN  IF fault = "DeleteTargetGroup" THEN [err |-> "transient", aws |-> a1]
             ELSE IF \E l \in a1.ls : l.tg = targetArn
             THEN [err |-> "ResourceInUse", aws |-> a1]
             ELSE [err |-> "",
                   aws |-> [a1 EXCEPT !.gs = {g \in @ : g.arn # targetArn}]]

\* client.CheckListener: a live read of the listener and of its group.  The
\* load balancer name is not compared (TODO in the code).
CheckListener(aws, svcListenerArn, svcTargetGroupArn, svcNLB, svcNLBPort, svcNodePort, fault) ==
    IF fault = "DescribeListeners" THEN "transient"
    ELSE IF ListenerByArn(aws, svcListenerArn) = {} THEN "ListenerNotFound"
    ELSE LET l == CHOOSE x \in ListenerByArn(aws, svcListenerArn) : TRUE
         IN  IF l.port # svcNLBPort
             THEN "aws: listener port and svcNLBPort dont match"
             ELSE IF l.tg # svcTargetGroupArn
             THEN "aws: target group arn dont match"
             ELSE IF fault = "DescribeTargetGroups" THEN "transient"
             ELSE IF {g \in aws.gs : g.arn = l.tg} = {} THEN "TargetGroupNotFound"
             ELSE LET g == CHOOSE x \in aws.gs : x.arn = l.tg
                  IN  IF g.port # svcNodePort
                      THEN "aws: target port and node port dont match"
                      ELSE ""

\* client.GetTargetGroupArn: the group named after the node port is reused if
\* it exists; else it is created, the instances of the network are looked up
\* and registered as its targets.
GetTargetGroupArn(aws, nodePort, fault) ==
    IF fault = "DescribeTargetGroups" THEN [err |-> "transient", arn |-> 0, aws |-> aws]
    ELSE IF GroupsByName(aws, nodePort) # {}
    THEN [err |-> "", arn |-> (CHOOSE g \in GroupsByName(aws, nodePort) : TRUE).arn,
          aws |-> aws]
    ELSE IF fault = "CreateTargetGroup" THEN [err |-> "transient", arn |-> 0, aws |-> aws]
    ELSE IF aws.next > MaxArns THEN [err |-> "TooManyTargetGroups", arn |-> 0, aws |-> aws]
    ELSE LET created == [arn |-> aws.next, port |-> nodePort, registered |-> FALSE]
             a1 == [aws EXCEPT !.gs = @ \cup {created}, !.next = @ + 1]
         IN  IF fault \in {"DescribeInstances", "RegisterTargets"}
             THEN [err |-> "transient", arn |-> 0, aws |-> a1]
             ELSE [err |-> "", arn |-> created.arn,
                   aws |-> [a1 EXCEPT !.gs = (@ \ {created})
                                        \cup {[created EXCEPT !.registered = TRUE]}]]

\* client.CreateNLBListenerForPort: looks the load balancer up, gets the
\* target group of the node port and creates the listener on the port.  The
\* provider answers DuplicateListener when the port of the load balancer
\* already has a listener.
CreateNLBListenerForPort(aws, nlbName, port, nodePort, fault) ==
    IF fault = "DescribeLoadBalancers"
    THEN [err |-> "transient", listenerArn |-> 0, targetArn |-> 0, aws |-> aws]
    ELSE IF nlbName \notin NLBs
    THEN [err |-> "aws: nlb not found", listenerArn |-> 0, targetArn |-> 0, aws |-> aws]
    ELSE LET g == GetTargetGroupArn(aws, nodePort, fault)
         IN  IF g.err # ""
             THEN [err |-> g.err, listenerArn |-> 0, targetArn |-> 0, aws |-> g.aws]
             ELSE IF fault = "CreateListener"
             THEN [err |-> "transient", listenerArn |-> 0, targetArn |-> 0, aws |-> g.aws]
             ELSE IF \E l \in g.aws.ls : l.nlb = nlbName /\ l.port = port
             THEN [err |-> "DuplicateListener", listenerArn |-> 0, targetArn |-> 0,
                   aws |-> g.aws]
             ELSE IF g.aws.next > MaxArns
             THEN [err |-> "TooManyListeners", listenerArn |-> 0, targetArn |-> 0,
                   aws |-> g.aws]
             ELSE [err |-> "", listenerArn |-> g.aws.next, targetArn |-> g.arn,
                   aws |-> [g.aws EXCEPT
                              !.ls = @ \cup {[arn |-> g.aws.next, nlb |-> nlbName,
                                              port |-> port, tg |-> g.arn]},
                              !.next = @ + 1]]

(***************************************************************************)
(* The reconciler (ServiceReconciler.Reconcile)                            *)
(***************************************************************************)

\* svc.Spec.Ports[0].NodePort: the cluster gives each service its own port.
NodePortOf(s) == IF s = "ns/a" THEN 30001 ELSE 30002

\* The annotations that make the binding record, all unset.
EmptyRecord == [name |-> "", host |-> <<>>, port |-> <<>>, listener |-> 0, target |-> 0]

\* The binding record written at lines 186-190.
BindingRecord(nlb, nlbPort, listenerArn, targetArn) ==
    [name |-> nlb, host |-> GetNLBHost(nlb), port |-> Itoa(nlbPort),
     listener |-> listenerArn, target |-> targetArn]

\* ctrl.Result{Requeue: requeue}, err ("" is the nil error).
Result(requeue, err) == [requeue |-> requeue, err |-> err]

\* The provider state as one value, and the ledger as one value.
Aws == [ls |-> listeners, gs |-> targetGroups, next |-> nextArn]
Store == [nm |-> NlbAllocationMap, sm |-> ServiceAllocationMap]

\* A pass that is not running.  pending carries the handles of a removal whose
\* provider delete failed in the service's last pass.
IdlePass == [pc |-> "idle", seen |-> "", rec |-> EmptyRecord, recPort |-> 0,
             alloc |-> Allocation("", 0, "", 0, 0),
             nlb |-> "", nlbPort |-> 0, listenerArn |-> 0, targetArn |-> 0,
             failedAt |-> "", err |-> "", stale |-> FALSE,
             result |-> Result(FALSE, ""),
             settled |-> FALSE, checked |-> "", conflict |-> "",
             granted |-> FALSE, released |-> FALSE,
             creates |-> 0, deletes |-> 0, delErr |-> "",
             delArgs |-> <<0, 0>>, retrying |-> <<0, 0>>, pending |-> <<0, 0>>]

\* TRUE iff the pass of s is between its first and its last step.
InFlight(s) == pass[s].pc \notin {"idle", "done"}

\* The handles a finished pass leaves to be retried: those of a removal whose
\* provider delete failed.
PendingOf(p) == IF p.pc = "done" /\ p.seen = "absent" /\ p.deletes > 0 /\ p.result.err # ""
                THEN p.delArgs
                ELSE IF p.pc = "idle" THEN p.pending ELSE <<0, 0>>

\* The pass record once the function has returned and its locals are gone.
Retire(p) == IF p.pc = "done" THEN [IdlePass EXCEPT !.pending = PendingOf(p)] ELSE p

\* The pass of s returns: its locals stay observable until the next pass starts.
Return(p, requeue, err) == [p EXCEPT !.pc = "done", !.result = Result(requeue, err)]

\* A call fails with a transient error (fault is not "none") only while the
\* run has transient errors left.
Inject(fault) ==
    /\ fault # "none" => faults > 0
    /\ faults' = IF fault # "none" THEN faults - 1 ELSE faults

\* TRUE iff the binding of s is settled: the service carries a binding record,
\* the ledger holds the same binding as the Allocation of s, and the provider
\* has the recorded listener on the recorded port, forwarding to the recorded
\* group, which targets the service's node port.
Settled(s) ==
    /\ s \in DOMAIN cluster
    /\ s \in DOMAIN ServiceAllocationMap
    /\ LET a == ServiceAllocationMap[s]
       IN  /\ cluster[s].ann = BindingRecord(a.NLB, a.Port, a.ListenerArn, a.TargetArn)
           /\ a.NLB \in NLBs
           /\ a.Port \in DOMAIN NlbAllocationMap[a.NLB]
           /\ NlbAllocationMap[a.NLB][a.Port] = s
           /\ [arn |-> a.ListenerArn, nlb |-> a.NLB, port |-> a.Port, tg |-> a.TargetArn]
                 \in listeners
           /\ \E g \in targetGroups : g.arn = a.TargetArn /\ g.port = NodePortOf(s)

\* Reconcile, lines 69-139 up to the first call after r.Get.  getFault is a
\* failure of r.Get other than NotFound.
Start(s) ==
    /\ ~InFlight(s)
    /\ Cardinality({x \in Services : InFlight(x)}) < workers
    /\ \E getFault \in {"Get", "none"} :
        /\ Inject(getFault)
        /\ LET p0 == [IdlePass EXCEPT !.retrying = PendingOf(pass[s])]
               svc == cluster[s]
               port == Atoi(svc.ann.port)
               p1 == IF getFault # "none"
                     THEN Return([p0 EXCEPT !.seen = "error"], TRUE, "unable to fetch service")
                     ELSE IF s \notin DOMAIN cluster
                     THEN [p0 EXCEPT !.pc = "lookup", !.seen = "absent"]
                     ELSE IF svc.type # "NodePort"
                     THEN Return([p0 EXCEPT !.seen = "kind"], FALSE, "")
                     ELSE LET p == [p0 EXCEPT
                                      !.seen = IF svc.optin THEN "eligible" ELSE "noopt",
                                      !.rec = svc.ann, !.settled = Settled(s)]
                          IN  IF svc.ann.name # "" /\ port.err = ""
                              THEN [p EXCEPT !.pc = "check", !.recPort = port.val]
                              ELSE [p EXCEPT !.pc = "scan"]
           IN  pass' = [x \in Services |-> IF x = s THEN p1 ELSE Retire(pass[x])]
    /\ UNCHANGED <<storeVars, awsVars, cluster, workers, events>>

\* Lines 74-78: the last known Allocation of a service that is gone.
LookupAllocation(s) ==
    /\ pass[s].pc = "lookup"
    /\ LET a == GetAllocationForSVC(Store, s)
       IN  pass' = [pass EXCEPT ![s] =
                IF ~a.present THEN Return(@, FALSE, "")
                ELSE [@ EXCEPT !.pc = "delete", !.alloc = a.alloc]]
    /\ UNCHANGED <<storeVars, awsVars, cluster, workers, events, faults>>

\* DeleteOnRemoval with a slip: the pair is released before the outcome of the
\* provider delete is looked at, so a failed delete loses the Allocation.
DeleteOnRemoval_ReleasesFirst(s) ==
    /\ pass[s].pc = "delete"
    /\ \E fault \in DeleteFaults \cup {"none"} :
        LET a == pass[s].alloc
            r == DeleteListenerAndTargetArn(Aws, a.ListenerArn, a.TargetArn, fault)
            st == ReleaseNLBAndPortForService(Store, s, a.NLB, a.Port)
            p == [pass[s] EXCEPT !.deletes = @ + 1, !.delErr = r.err,
                                 !.delArgs = <<a.ListenerArn, a.TargetArn>>]
        IN  /\ Inject(fault)
            /\ listeners' = r.aws.ls
            /\ targetGroups' = r.aws.gs
            /\ nextArn' = r.aws.next
            /\ NlbAllocationMap' = st.nm
            /\ ServiceAllocationMap' = st.sm
            /\ pass' = [pass EXCEPT ![s] =
                    IF r.err # "" THEN Return(p, TRUE, r.err)
                    ELSE [p EXCEPT !.pc = "delrelease"]]
    /\ UNCHANGED <<cluster, workers, events>>

\* Lines 80-83: the provider delete of a service that is gone.
DeleteOnRemoval(s) ==
    /\ pass[s].pc = "delete"
    /\ \E fault \in DeleteFaults \cup {"none"} :
        LET a == pass[s].alloc
            r == DeleteListenerAndTargetArn(Aws, a.ListenerArn, a.TargetArn, fault)
            p == [pass[s] EXCEPT !.deletes = @ + 1, !.delErr = r.err,
                                 !.delArgs = <<a.ListenerArn, a.TargetArn>>]
        IN  /\ Inject(fault)
            /\ listeners' = r.aws.ls
            /\ targetGroups' = r.aws.gs
            /\ nextArn' = r.aws.next
            /\ pass' = [pass EXCEPT ![s] =
                    IF r.err # "" THEN Return(p, TRUE, r.err)
                    ELSE [p EXCEPT !.pc = "delrelease"]]
    /\ UNCHANGED <<storeVars, cluster, workers, events>>

\* Lines 85-87: the pair of a removed service goes back to the pool.
ReleaseOnRemoval(s) ==
    /\ pass[s].pc = "delrelease"
    /\ LET st == ReleaseNLBAndPortForService(Store, s, pass[s].alloc.NLB, pass[s].alloc.Port)
       IN  /\ NlbAllocationMap' = st.nm
           /\ ServiceAllocationMap' = st.sm
    /\ pass' = [pass EXCEPT ![s] = Return([@ EXCEPT !.released = TRUE], FALSE, "")]
    /\ UNCHANGED <<awsVars, cluster, workers, events, faults>>

\* checkAllocationValidity, lines 227-237, and the caller's lines 132-133: the
\* live check of the recorded binding.  Any error falls through to allocation.
ValidateBinding(s) ==
    /\ pass[s].pc = "check"
    /\ \E fault \in CheckFaults \cup {"none"} :
        LET rec == pass[s].rec
            err == CheckListener(Aws, rec.listener, rec.target, rec.name,
                                 pass[s].recPort, NodePortOf(s), fault)
        IN  /\ Inject(fault)
            /\ pass' = [pass EXCEPT ![s] =
                    [@ EXCEPT !.pc = IF err = "" THEN "reassign" ELSE "scan",
                              !.checked = IF err = "" THEN "ok" ELSE err]]
    /\ UNCHANGED <<storeVars, awsVars, cluster, workers, events>>

\* The process dies on a panic: the ledger is rebuilt and no pass is running.
Panicked ==
    /\ NlbAllocationMap' = New.nm
    /\ ServiceAllocationMap' = New.sm
    /\ pass' = [x \in Services |-> IdlePass]

\* checkAllocationValidity, lines 238-249, and the caller's lines 132-137: the
\* recorded pair is reserved again; a conflict falls through to allocation.
ReReserve(s) ==
    /\ pass[s].pc = "reassign"
    /\ LET rec == pass[s].rec
           r == AssignNLBAndPortToServiceInNamespace(Store, rec.name, pass[s].recPort, s,
                                                     rec.listener, rec.target)
       IN  IF r.panic THEN Panicked
           ELSE /\ NlbAllocationMap' = r.st.nm
                /\ ServiceAllocationMap' = r.st.sm
                /\ pass' = [pass EXCEPT ![s] =
                        IF r.err # "" THEN [@ EXCEPT !.pc = "scan", !.conflict = r.owner]
                        ELSE Return(@, FALSE, "")]
    /\ UNCHANGED <<awsVars, cluster, workers, events, faults>>

\* GetVacantNLBAndPortForService, lines 89-91 and 97: the scan for a free pair.
\* Nothing is held between the read of the port map and the write at line 92.
GetVacantRead(s) ==
    /\ pass[s].pc = "scan"
    /\ IF VacantCandidates(Store) = {}
       THEN pass' = [pass EXCEPT ![s] = Return(@, TRUE, "no vacancy found")]
       ELSE \E c \in VacantCandidates(Store) :
                pass' = [pass EXCEPT ![s] = [@ EXCEPT !.pc = "mark", !.nlb = c[1],
                                                      !.nlbPort = c[2]]]
    /\ UNCHANGED <<storeVars, awsVars, cluster, workers, events, faults>>

\* GetVacantNLBAndPortForService, lines 92-93: the pair found is marked and
\* returned to the pass.
GetVacantWrite(s) ==
    /\ pass[s].pc = "mark"
    /\ LET st == MarkVacant(Store, pass[s].nlb, pass[s].nlbPort, s)
       IN  /\ NlbAllocationMap' = st.nm
           /\ ServiceAllocationMap' = st.sm
    /\ pass' = [pass EXCEPT ![s] = [@ EXCEPT !.pc = "create", !.granted = TRUE]]
    /\ UNCHANGED <<awsVars, cluster, workers, events, faults>>

\* Lines 152-162: the provider creates the listener on the granted pair.
CreateListener(s) ==
    /\ pass[s].pc = "create"
    /\ \E fault \in CreateFaults \cup {"none"} :
        LET r == CreateNLBListenerForPort(Aws, pass[s].nlb, pass[s].nlbPort,
                                          NodePortOf(s), fault)
            p == [pass[s] EXCEPT !.creates = @ + 1]
        IN  /\ Inject(fault)
            /\ listeners' = r.aws.ls
            /\ targetGroups' = r.aws.gs
            /\ nextArn' = r.aws.next
            /\ pass' = [pass EXCEPT ![s] =
                    IF r.err # ""
                    THEN [p EXCEPT !.pc = "release", !.failedAt = "create", !.err = r.err]
                    ELSE [p EXCEPT !.pc = "assign", !.listenerArn = r.listenerArn,
                                   !.targetArn = r.targetArn]]
    /\ UNCHANGED <<storeVars, cluster, workers, events>>

\* Lines 167-176: the Allocation is saved in the ledger.
SaveAllocation(s) ==
    /\ pass[s].pc = "assign"
    /\ LET r == AssignNLBAndPortToServiceInNamespace(Store, pass[s].nlb, pass[s].nlbPort, s,
                                                     pass[s].listenerArn, pass[s].targetArn)
       IN  IF r.panic THEN Panicked
           ELSE /\ NlbAllocationMap' = r.st.nm
                /\ ServiceAllocationMap' = r.st.sm
                /\ pass' = [pass EXCEPT ![s] =
                        IF r.err # ""
                        THEN [@ EXCEPT !.pc = "release", !.failedAt = "assign", !.err = r.err,
                                       !.conflict = r.owner]
                        ELSE [@ EXCEPT !.pc = "update"]]
    /\ UNCHANGED <<awsVars, cluster, workers, events, faults>>

\* Lines 186-194: the binding record is written onto the service.  The write
\* fails when the service is gone (NotFound), when it changed since the pass
\* read it (Conflict), or with a transient error.
UpdateService(s) ==
    /\ pass[s].pc = "update"
    /\ \E updFault \in {"Update", "none"} :
        LET err == IF updFault # "none" THEN "transient"
                   ELSE IF s \notin DOMAIN cluster THEN "NotFound"
                   ELSE IF pass[s].stale THEN "Conflict"
                   ELSE ""
        IN  /\ Inject(updFault)
            /\ IF err = ""
               THEN /\ cluster' = [cluster EXCEPT ![s].ann =
                           BindingRecord(pass[s].nlb, pass[s].nlbPort,
                                         pass[s].listenerArn, pass[s].targetArn)]
                    /\ pass' = [pass EXCEPT ![s] = Return(@, FALSE, "")]
               ELSE /\ cluster' = cluster
                    /\ pass' = [pass EXCEPT ![s] =
                           [@ EXCEPT !.pc = "release", !.failedAt = "update", !.err = err]]
    /\ UNCHANGED <<storeVars, awsVars, workers, events>>

\* Lines 163-164, 177 and 195: the release that follows a failed create, a
\* failed save and a failed write of the record.
ReleaseAfterFailure(s) ==
    /\ pass[s].pc = "release"
    /\ LET st == IF pass[s].failedAt = "update"
                 THEN ReleaseNLBAndPortForService(Store, s, "", 0)
                 ELSE ReleaseNLBAndPortForService(Store, s, pass[s].nlb, pass[s].nlbPort)
       IN  /\ NlbAllocationMap' = st.nm
           /\ ServiceAllocationMap' = st.sm
    /\ pass' = [pass EXCEPT ![s] =
            IF pass[s].failedAt = "create"
            THEN Return([@ EXCEPT !.released = TRUE], TRUE, pass[s].err)
            ELSE [@ EXCEPT !.pc = "cleanup", !.released = TRUE]]
    /\ UNCHANGED <<awsVars, cluster, workers, events, faults>>

\* Lines 178-183 and 196-205: the listener just created is deleted again.
CompensatingDelete(s) ==
    /\ pass[s].pc = "cleanup"
    /\ \E fault \in DeleteFaults \cup {"none"} :
        LET r == DeleteListenerAndTargetArn(Aws, pass[s].listenerArn, pass[s].targetArn, fault)
            p == [pass[s] EXCEPT !.deletes = @ + 1, !.delErr = r.err,
                                 !.delArgs = <<pass[s].listenerArn, pass[s].targetArn>>]
        IN  /\ Inject(fault)
            /\ listeners' = r.aws.ls
            /\ targetGroups' = r.aws.gs
            /\ nextArn' = r.aws.next
            /\ pass' = [pass EXCEPT ![s] =
                    IF r.err # "" THEN Return(p, FALSE, r.err)
                    ELSE IF p.failedAt = "assign" THEN Return(p, TRUE, p.err)
                    ELSE IF p.err = "NotFound" THEN Return(p, FALSE, "")
                    ELSE Return(p, TRUE, "")]
    /\ UNCHANGED <<storeVars, cluster, workers, events>>

(***************************************************************************)
(* The environment: the cluster, the provider and the process              *)
(***************************************************************************)

\* A service object as the cluster holds it.
ServiceObject(kind, optin, ann) == [type |-> kind, optin |-> optin, ann |-> ann]

\* The environment makes one more change.
Event ==
    /\ events > 0
    /\ events' = events - 1

\* Marks the running pass of s as holding an outdated copy of the service.
Outdate(s) == [pass EXCEPT ![s].stale = InFlight(s), ![s].settled = FALSE]

\* A service appears in the cluster, without a binding record.
CreateService(s) ==
    /\ Event
    /\ s \notin DOMAIN cluster
    /\ \E kind \in {"NodePort", "ClusterIP"}, optin \in BOOLEAN :
        cluster' = MapPut(cluster, s, ServiceObject(kind, optin, EmptyRecord))
    /\ pass' = Outdate(s)
    /\ UNCHANGED <<storeVars, awsVars, workers, faults>>

\* A service is removed from the cluster.
RemoveService(s) ==
    /\ Event
    /\ s \in DOMAIN cluster
    /\ cluster' = MapDelete(cluster, s)
    /\ pass' = Outdate(s)
    /\ UNCHANGED <<storeVars, awsVars, workers, faults>>

\* Someone edits the port annotation of a binding record: into a non-number,
\* or into a port that is not in the range of the pool.
TamperPort(s) ==
    /\ Event
    /\ s \in DOMAIN cluster
    /\ cluster[s].ann.name # ""
    /\ \E v \in {<<"x">>, Itoa(DriftPort)} :
        /\ cluster[s].ann.port # v
        /\ cluster' = [cluster EXCEPT ![s].ann.port = v]
    /\ pass' = Outdate(s)
    /\ UNCHANGED <<storeVars, awsVars, workers, faults>>

\* A load balancer that NLB_LIST does not configure.
UnknownNlb == "lb0"

\* Someone edits the load balancer annotation of a binding record into the
\* name of a load balancer that is not in the pool.
TamperName(s) ==
    /\ Event
    /\ s \in DOMAIN cluster
    /\ cluster[s].ann.name \notin {"", UnknownNlb}
    /\ cluster' = [cluster EXCEPT ![s].ann.name = UnknownNlb]
    /\ pass' = Outdate(s)
    /\ UNCHANGED <<storeVars, awsVars, workers, faults>>

\* An out-of-band change at the provider moves a listener to another port.
ModifyListener(l) ==
    /\ Event
    /\ l \in listeners
    /\ l.port # DriftPort
    /\ ~\E x \in listeners : x.nlb = l.nlb /\ x.port = DriftPort
    /\ listeners' = (listeners \ {l}) \cup {[l EXCEPT !.port = DriftPort]}
    /\ pass' = [s \in Services |-> [pass[s] EXCEPT !.settled = FALSE]]
    /\ UNCHANGED <<storeVars, targetGroups, nextArn, cluster, workers, faults>>

\* The controller process restarts: store.New rebuilds the ledger from the
\* configuration and no pass is running.
Restart ==
    /\ Event
    /\ Store # New \/ \E s \in Services : pass[s] # IdlePass
    /\ Panicked
    /\ UNCHANGED <<awsVars, cluster, workers, faults>>

(***************************************************************************)
(* Specifications                                                          *)
(***************************************************************************)

\* The services the controller finds when it starts for the first time: any
\* of them, of either kind, opted in or not, none with a binding record.
InitialClusters ==
    LET Absent == "absent"
        Shapes == {Absent} \cup ({"NodePort", "ClusterIP"} \X BOOLEAN)
    IN  {[s \in {x \in Services : f[x] # Absent} |->
            ServiceObject(f[s][1], f[s][2], EmptyRecord)] : f \in [Services -> Shapes]}

\* The state after construction, but for the number of workers and for what
\* the environment may do.
InitState ==
    /\ NlbAllocationMap = New.nm
    /\ ServiceAllocationMap = New.sm
    /\ cluster \in InitialClusters
    /\ listeners = {}
    /\ targetGroups = {}
    /\ nextArn = 1
    /\ pass = [s \in Services |-> IdlePass]

\* SetupWithManager sets no MaxConcurrentReconciles: one worker, one pass at a time.
Init ==
    /\ InitState
    /\ workers = 1
    /\ faults = MaxFaults
    /\ events = MaxEvents

\* The controller configured to run the passes of different services at once,
\* in a quiet environment: no transient error and one change.
InitConcurrent ==
    /\ InitState
    /\ workers = MaxConcurrentReconciles
    /\ faults = 0
    /\ events = 1

Reconcile(s) ==
    \/ Start(s)
    \/ LookupAllocation(s)
    \/ DeleteOnRemoval(s)
    \/ ReleaseOnRemoval(s)
    \/ ValidateBinding(s)
    \/ ReReserve(s)
    \/ GetVacantRead(s)
    \/ GetVacantWrite(s)
    \/ CreateListener(s)
    \/ SaveAllocation(s)
    \/ UpdateService(s)
    \/ ReleaseAfterFailure(s)
    \/ CompensatingDelete(s)

Environment ==
    \/ \E s \in Services : CreateService(s) \/ RemoveService(s) \/ TamperPort(s)
                                \/ TamperName(s)
    \/ \E l \in listeners : ModifyListener(l)
    \/ Restart

Next == (\E s \in Services : Reconcile(s)) \/ Environment

Spec == Init /\ [][Next]_vars

SpecConcurrent == InitConcurrent /\ [][Next]_vars

\* One worker, one transient error and one change of the environment: after
\* them the provider and the cluster answer every call.
InitLive ==
    /\ InitState
    /\ workers = 1
    /\ faults = 1
    /\ events = 1

\* The work queue hands every service to the worker again and again, and a
\* pass that has started runs to its end.
SpecLive == InitLive /\ [][Next]_vars /\ \A s \in Services : SF_vars(Reconcile(s))

(***************************************************************************)
(* Observations the claims are stated with                                 *)
(***************************************************************************)

\* All (load balancer, port) pairs of the pool.
Pairs == NLBs \X Ports

\* The pairs NlbAllocationMap records as occupied by s.
OccupiedBy(s) ==
    {pr \in UNION {{n} \X DOMAIN NlbAllocationMap[n] : n \in DOMAIN NlbAllocationMap} :
        NlbAllocationMap[pr[1]][pr[2]] = s}

\* The pair GetVacantNLBAndPortForService returned to the running pass of s.
GrantedTo(s) == IF InFlight(s) /\ pass[s].granted
                THEN {<<pass[s].nlb, pass[s].nlbPort>>} ELSE {}

\* The pair of the Allocation the ledger holds for s.
AllocatedTo(s) == IF s \in DOMAIN ServiceAllocationMap
                  THEN {<<ServiceAllocationMap[s].NLB, ServiceAllocationMap[s].Port>>}
                  ELSE {}

\* TRUE iff the outcome makes the controller run the pass again: it puts the
\* request back on the work queue when the error is not nil, whatever the
\* Result says, and when Result.Requeue is set.
IsRetry(result) == result.requeue \/ result.err # ""

(***************************************************************************)
(* C1                                                                      *)
(***************************************************************************)

\* C1: under every interleaving of the passes of distinct services, no two
\* services are granted or hold the same (load balancer, port) pair: the pair
\* a running pass got from GetVacantNLBAndPortForService and the pair of a
\* service's Allocation are never the pair of another service.
C1_NoPairGrantedTwice ==
    \A s, u \in Services :
        s # u => (GrantedTo(s) \cup AllocatedTo(s)) \cap (GrantedTo(u) \cup AllocatedTo(u)) = {}

(***************************************************************************)
(* C2                                                                      *)
(***************************************************************************)

\* C2: a pass whose createListener failed after GetVacantNLBAndPortForService
\* granted it a pair ends with a retry outcome and with that pair unoccupied
\* in the ledger.
C2_FailedCreateFreesPair ==
    \A s \in Services :
        (pass[s].pc = "done" /\ pass[s].failedAt = "create") =>
            /\ IsRetry(pass[s].result)
            /\ pass[s].nlbPort \notin DOMAIN NlbAllocationMap[pass[s].nlb]

(***************************************************************************)
(* C3                                                                      *)
(***************************************************************************)

\* A step in which the pass of s calls ReleaseNLBAndPortForService.
ReleaseStep(s) == ~pass[s].released /\ pass'[s].released

\* C3: a call of ReleaseNLBAndPortForService for s leaves no pair of the
\* ledger occupied by s and no Allocation of s, whether the pair was taken by
\* reserve or by findFreeSlot; it leaves the occupancy of every other service
\* as it was; and it leaves the ledger as it was if s owned nothing.
C3_ReleaseFreesEveryPair ==
    [][\A s \in Services :
        ReleaseStep(s) =>
            /\ OccupiedBy(s)' = {}
            /\ s \notin DOMAIN ServiceAllocationMap'
            /\ \A u \in Services \ {s} :
                /\ OccupiedBy(u)' = OccupiedBy(u)
                /\ AllocatedTo(u)' = AllocatedTo(u)
            /\ (OccupiedBy(s) = {} /\ s \notin DOMAIN ServiceAllocationMap)
                    => UNCHANGED storeVars]_vars

(***************************************************************************)
(* C4                                                                      *)
(***************************************************************************)

\* A step of the pass of s: the pass moves to its next position or returns.
PassStep(s) == pass'[s].pc # pass[s].pc /\ pass'[s].pc # "idle"

\* C4: a pass that finds its service present but not eligible (not of kind
\* NodePort, or without the opt-in annotation) returns at once and changes
\* nothing: not the ledger, not the provider, not the service.
C4_IneligiblePassChangesNothing ==
    [][\A s \in Services :
        (PassStep(s) /\ pass'[s].seen \in {"kind", "noopt"}) =>
            /\ pass'[s].pc = "done"
            /\ pass'[s].result = Result(FALSE, "")
            /\ pass'[s].checked = "" /\ pass'[s].creates = 0 /\ pass'[s].deletes = 0
            /\ UNCHANGED <<storeVars, awsVars, cluster>>]_vars

(***************************************************************************)
(* C5                                                                      *)
(***************************************************************************)

\* The pass of s ended in the removal branch with a failed provider delete.
FailedRemoval(s) ==
    /\ pass[s].pc = "done"
    /\ pass[s].seen = "absent"
    /\ pass[s].deletes > 0
    /\ pass[s].result.err # ""

\* C5: when the provider delete of a removed service fails, the pass asks for
\* a retry and the ledger still holds the service's Allocation and its pair;
\* and a removal pass that follows a failed removal of the same service calls
\* the provider delete once, with the handles of the failed call.
C5_RemovalIsRetriedWithSameHandles ==
    \A s \in Services :
        /\ FailedRemoval(s) =>
            /\ pass[s].result.requeue
            /\ s \in DOMAIN ServiceAllocationMap
            /\ ServiceAllocationMap[s] = pass[s].alloc
            /\ <<pass[s].alloc.NLB, pass[s].alloc.Port>> \in OccupiedBy(s)
            /\ pass[s].delArgs = <<pass[s].alloc.ListenerArn, pass[s].alloc.TargetArn>>
        /\ (pass[s].pc = "done" /\ pass[s].seen = "absent" /\ pass[s].retrying # <<0, 0>>) =>
            /\ pass[s].deletes = 1
            /\ pass[s].delArgs = pass[s].retrying

\* A removal was retried: the pass after a failed removal has called the
\* provider delete again.
C5_Witness ==
    \E s \in Services :
        /\ pass[s].pc = "done" /\ pass[s].seen = "absent"
        /\ pass[s].retrying # <<0, 0>>
        /\ pass[s].deletes = 1
        /\ FailedRemoval(s)

(***************************************************************************)
(* C6                                                                      *)
(***************************************************************************)

\* The removal of s is half done: the service is gone, the ledger still holds
\* its Allocation, the listener of the Allocation is deleted and its group is
\* not, and no listener forwards to the group any more.
Dangling(s) ==
    /\ s \notin DOMAIN cluster
    /\ s \in DOMAIN ServiceAllocationMap
    /\ ListenerByArn(Aws, ServiceAllocationMap[s].ListenerArn) = {}
    /\ \E g \in targetGroups : g.arn = ServiceAllocationMap[s].TargetArn
    /\ ~\E l \in listeners : l.tg = ServiceAllocationMap[s].TargetArn

\* The removal of s is complete: the ledger holds no Allocation of s and the
\* group is deleted (or the service is back in the cluster).
Cleaned(s) ==
    \/ s \in DOMAIN cluster
    \/ /\ s \notin DOMAIN ServiceAllocationMap
       /\ ~\E g \in targetGroups : g.port = NodePortOf(s)

\* C6: a delete of a listener that is already gone counts as success, so once
\* the provider has stopped returning transient errors, the retries of a half
\* done removal delete the dangling group and release the pair.
C6_DanglingGroupIsEventuallyDeleted ==
    \A s \in Services : Dangling(s) ~> Cleaned(s)

(***************************************************************************)
(* C7                                                                      *)
(***************************************************************************)

\* The pass of s ended after the write of the binding record failed.
RolledBack(s) == pass[s].pc = "done" /\ pass[s].failedAt = "update"

\* C7: a pass in which the provider created the listener and the write of the
\* binding record failed ends with the granted pair free in the ledger, with
\* no Allocation of the service, and having called the provider create once
\* and the provider delete once, the delete with the handles the create
\* returned.
C7_RollbackAfterFailedUpdate ==
    \A s \in Services :
        RolledBack(s) =>
            /\ pass[s].nlbPort \notin DOMAIN NlbAllocationMap[pass[s].nlb]
            /\ s \notin DOMAIN ServiceAllocationMap
            /\ pass[s].creates = 1
            /\ pass[s].deletes = 1
            /\ pass[s].listenerArn # 0
            /\ pass[s].delArgs = <<pass[s].listenerArn, pass[s].targetArn>>

\* A pass was rolled back after the provider had created a listener.
C7_Witness ==
    \E s \in Services :
        RolledBack(s) /\ pass[s].creates = 1 /\ pass[s].deletes = 1 /\ pass[s].listenerArn # 0

(***************************************************************************)
(* C8                                                                      *)
(***************************************************************************)

\* C8: a pass for a service whose binding is settled (allocated, recorded on
\* the service, present at the provider) and that nothing changes meanwhile
\* leaves the record, the ledger and the provider as they are: it validates,
\* reserves the same pair again and returns, with no provider create or
\* delete.
C8_SecondPassIsIdempotent ==
    [][\A s \in Services :
        (PassStep(s) /\ pass'[s].settled) =>
            /\ pass'[s].pc \in {"check", "reassign", "done"}
            /\ pass'[s].pc = "done" => pass'[s].result = Result(FALSE, "")
            /\ pass'[s].creates = 0 /\ pass'[s].deletes = 0
            /\ UNCHANGED <<storeVars, awsVars, cluster>>]_vars

(***************************************************************************)
(* C9                                                                      *)
(***************************************************************************)

\* C9: whenever the live check of an eligible service's recorded binding
\* succeeds, the pass reserves the recorded pair for the service and returns
\* without a provider create or delete, whatever the ledger held.
C9_ValidBindingIsReReserved ==
    \A s \in Services :
        (pass[s].seen = "eligible" /\ pass[s].checked = "ok") =>
            /\ pass[s].pc \in {"reassign", "done"}
            /\ pass[s].creates = 0 /\ pass[s].deletes = 0 /\ ~pass[s].granted
            /\ pass[s].pc = "done" =>
                /\ pass[s].result = Result(FALSE, "")
                /\ <<pass[s].rec.name, pass[s].recPort>> \in OccupiedBy(s)
                /\ AllocatedTo(s) = {<<pass[s].rec.name, pass[s].recPort>>}

(***************************************************************************)
(* C10                                                                     *)
(***************************************************************************)

\* C10: after the pass that removes a service whose provider delete
\* succeeded, the ledger holds no Allocation of the service and no pair is
\* occupied by it, whatever passes the service went through before.
C10_RemovalFreesTheService ==
    \A s \in Services :
        (pass[s].pc = "done" /\ pass[s].seen = "absent" /\ pass[s].deletes > 0
            /\ pass[s].result.err = "") =>
            /\ ~GetAllocationForSVC(Store, s).present
            /\ OccupiedBy(s) = {}

(***************************************************************************)
(* C11                                                                     *)
(***************************************************************************)

\* The errors of CheckListener that name a discrepancy between the recorded
\* binding and the live listener.
Mismatches == {"aws: listener port and svcNLBPort dont match",
               "aws: target group arn dont match",
               "aws: target port and node port dont match"}

\* C11: a pass whose live check reported a mismatch for the recorded binding
\* is never granted the recorded pair again by
\* GetVacantNLBAndPortForService: the pair it allocates differs from the
\* recorded one, whatever the ledger held when the pass started.
C11_MismatchNeverReusesRecordedPair ==
    \A s \in Services :
        (pass[s].checked \in Mismatches /\ pass[s].granted) =>
            <<pass[s].nlb, pass[s].nlbPort>> # <<pass[s].rec.name, pass[s].recPort>>

(***************************************************************************)
(* C12                                                                     *)
(***************************************************************************)

\* The load balancers in the order NLB_LIST configures them.
NlbOrder == <<"lb1", "lb2">>

\* The first free pair of the ledger when the load balancers are taken in
\* their configured order and the ports ascending; <<>> if no pair is free.
FirstVacant(st) ==
    LET free(n) == Ports \ DOMAIN st.nm[n]
        idx == {i \in 1..Len(NlbOrder) : free(NlbOrder[i]) # {}}
    IN  IF idx = {} THEN <<>>
        ELSE <<NlbOrder[Min(idx)], Min(free(NlbOrder[Min(idx)]))>>

\* C12: GetVacantNLBAndPortForService scans the pool in one fixed order, the
\* load balancers as configured and the ports ascending: the pair it finds is
\* the first free pair of that order (so the same ledger always yields the
\* same pair), the pair is marked as occupied by the calling service, and it
\* reports "no vacancy found" exactly when no pair of the pool is free.
C12_FirstVacantInFixedOrder ==
    \A s \in Services :
        /\ pass[s].pc = "mark" =>
                <<pass[s].nlb, pass[s].nlbPort>> = FirstVacant(Store)
        /\ pass[s].pc = "create" =>
                <<pass[s].nlb, pass[s].nlbPort>> \in OccupiedBy(s)
        /\ (pass[s].pc = "done" /\ pass[s].result.err = "no vacancy found") =>
                FirstVacant(Store) = <<>>

(***************************************************************************)
(* C13                                                                     *)
(***************************************************************************)

\* The arguments of the call of AssignNLBAndPortToServiceInNamespace the pass
\* of s is about to make: load balancer, port, listener ARN, target ARN.
ReserveArgs(s) ==
    IF pass[s].pc = "reassign"
    THEN <<pass[s].rec.name, pass[s].recPort, pass[s].rec.listener, pass[s].rec.target>>
    ELSE <<pass[s].nlb, pass[s].nlbPort, pass[s].listenerArn, pass[s].targetArn>>

\* A step in which the pass of s calls AssignNLBAndPortToServiceInNamespace
\* and the call returns.
ReserveStep(s) ==
    /\ pass[s].pc \in {"reassign", "assign"}
    /\ pass'[s].pc \in {"scan", "done", "release", "update"}

\* The service NlbAllocationMap names as the owner of a pair; "" if free.
OwnerOf(nlb, port) ==
    IF nlb \in DOMAIN NlbAllocationMap /\ port \in DOMAIN NlbAllocationMap[nlb]
    THEN NlbAllocationMap[nlb][port] ELSE ""

\* C13: a call of AssignNLBAndPortToServiceInNamespace for service s and a
\* pair of the pool succeeds when the pair is free or owned by s, and then
\* both indices hold the pair for s; when the pair is owned by another
\* service the call returns a conflict that names the owner and leaves both
\* indices as they were; in no case does a pair of another service change
\* its owner.
C13_ReserveNeverOverwrites ==
    [][\A s \in Services :
        (ReserveStep(s) /\ ReserveArgs(s)[1] \in NLBs) =>
            LET a == ReserveArgs(s)
                owner == OwnerOf(a[1], a[2])
            IN  /\ owner \in {"", s} =>
                    /\ pass'[s].pc \in {"done", "update"}
                    /\ a[2] \in DOMAIN NlbAllocationMap'[a[1]]
                    /\ NlbAllocationMap'[a[1]][a[2]] = s
                    /\ s \in DOMAIN ServiceAllocationMap'
                    /\ ServiceAllocationMap'[s] = Allocation(a[1], a[2], s, a[3], a[4])
                /\ owner \notin {"", s} =>
                    /\ pass'[s].pc \in {"scan", "release"}
                    /\ pass'[s].conflict = owner
                    /\ UNCHANGED storeVars
                /\ \A n \in NLBs : \A p \in DOMAIN NlbAllocationMap[n] :
                        NlbAllocationMap[n][p] # s =>
                            /\ p \in DOMAIN NlbAllocationMap'[n]
                            /\ NlbAllocationMap'[n][p] = NlbAllocationMap[n][p]]_vars

\* A call of AssignNLBAndPortToServiceInNamespace has found the pair owned by
\* another service and the pass has gone on with the conflict.
C13_Witness ==
    \E s \in Services :
        /\ pass[s].conflict \in Services \ {s}
        /\ <<pass[s].rec.name, pass[s].recPort>> \in OccupiedBy(pass[s].conflict)

(***************************************************************************)
(* C14                                                                     *)
(***************************************************************************)

\* The pass of s ended after the delete that undoes its listener failed.
CompensationFailed(s) ==
    /\ pass[s].pc = "done"
    /\ pass[s].failedAt \in {"assign", "update"}
    /\ pass[s].delErr # ""

\* The pass of s ended with one of the failures that are to be retried: the
\* provider create failed, no pair was free, or the delete of a removed
\* service failed.
OrdinaryFailure(s) ==
    /\ pass[s].pc = "done"
    /\ \/ pass[s].failedAt = "create"
       \/ pass[s].result.err = "no vacancy found"
       \/ FailedRemoval(s)

\* C14: when the delete that follows a failed save of the binding fails too,
\* the pass ends with an outcome that carries the error of the delete and
\* that does not make the controller run the pass again, unlike the outcome
\* of a failed create, of an exhausted pool and of a failed removal, which
\* do.
C14_FailedCompensationIsNotRetried ==
    \A s \in Services :
        /\ CompensationFailed(s) =>
            /\ pass[s].result.err = pass[s].delErr
            /\ ~IsRetry(pass[s].result)
        /\ OrdinaryFailure(s) => IsRetry(pass[s].result)

\* The part of C14 the code keeps: the outcome of a failed compensation has
\* Requeue unset and carries the error of the delete, and every ordinary
\* failure has Requeue set.
RequeueFlagTellsCompensation ==
    \A s \in Services :
        /\ CompensationFailed(s) =>
            pass[s].result = Result(FALSE, pass[s].delErr)
        /\ OrdinaryFailure(s) => pass[s].result.requeue

(***************************************************************************)
(* C15                                                                     *)
(***************************************************************************)

\* The errors a provider call of the pass of s has returned so far that were
\* transient: from the live check, from the create and from a delete.
TransientSeen(s) ==
    "transient" \in {pass[s].checked, pass[s].err, pass[s].delErr}

\* C15: a pass in which a provider call failed with a transient error ends
\* with an outcome that makes the controller run it again; and a transient
\* error of the live check is not taken for a mismatch: the pass is granted
\* no pair and creates no listener after it.
C15_TransientErrorIsRetried ==
    \A s \in Services :
        /\ (pass[s].pc = "done" /\ TransientSeen(s)) => IsRetry(pass[s].result)
        /\ pass[s].checked = "transient" =>
            /\ ~pass[s].granted
            /\ pass[s].creates = 0

(***************************************************************************)
(* C16                                                                     *)
(***************************************************************************)

\* C16: whenever no pass is running, NlbAllocationMap and
\* ServiceAllocationMap agree: the pairs occupied by a service are exactly
\* the pair of its Allocation, so a service without an Allocation occupies
\* no pair and a service with one occupies that pair and no other.
C16_IndicesAgreeAtRest ==
    (\A x \in Services : ~InFlight(x)) =>
        \A s \in Services : OccupiedBy(s) = AllocatedTo(s)

(***************************************************************************)
(* C17                                                                     *)
(***************************************************************************)

\* Every pair NlbAllocationMap holds and the pair of every Allocation is a
\* pair of the pool.
InPool ==
    /\ \A s \in Services : OccupiedBy(s) \subseteq Pairs
    /\ \A s \in DOMAIN ServiceAllocationMap :
            <<ServiceAllocationMap[s].NLB, ServiceAllocationMap[s].Port>> \in Pairs

\* A step in which the call of AssignNLBAndPortToServiceInNamespace by the
\* pass of s panics and takes the process down.
CrashStep(s) ==
    /\ pass[s].pc \in {"reassign", "assign"}
    /\ pass'[s].pc = "idle"
    /\ events' = events

\* C17: after every step of every pass the ledger holds only pairs of the
\* pool, in both indices, also after a pass that reserves again the pair its
\* service's binding record names; and no pass panics, whatever load
\* balancer or port the record names.
C17_LedgerStaysInPool ==
    [][/\ InPool'
       /\ \A s \in Services : ~CrashStep(s)]_vars

(***************************************************************************)
(* C18                                                                     *)
(***************************************************************************)

\* The service is in the cluster, of kind NodePort and opted in.
Eligible(s) ==
    /\ s \in DOMAIN cluster
    /\ cluster[s].type = "NodePort"
    /\ cluster[s].optin

\* The service carries a binding record.
Bound(s) == s \in DOMAIN cluster /\ cluster[s].ann.name # ""

\* The provider refuses every further create: its quota is used up.
QuotaReached == nextArn > MaxArns

\* C18: with a pool of as many pairs as there are services, with every pass
\* run again and again and with the provider and the cluster failing only
\* finitely often, every eligible service comes to carry a binding record
\* (unless it stops being eligible or the provider's quota is used up); and
\* GetVacantNLBAndPortForService reports "no vacancy found" only when as many
\* services hold an Allocation as the pool has pairs.
C18_EligibleServiceIsEventuallyBound ==
    /\ \A s \in Services :
            Eligible(s) ~> (Bound(s) \/ ~Eligible(s) \/ QuotaReached)
    /\ [](\A s \in Services :
            (pass[s].pc = "done" /\ pass[s].result.err = "no vacancy found") =>
                Cardinality(DOMAIN ServiceAllocationMap) >= Cardinality(Pairs))

(***************************************************************************)
(* C19                                                                     *)
(***************************************************************************)

\* The node ports the services of the model use.
NodePorts == {NodePortOf(s) : s \in Services}

\* C19: however often CreateNLBListenerForPort is called for a node port,
\* and however the calls failed, the provider holds at most one target group
\* for the node port; and when a call succeeds, the target group it returns
\* has the instances of the network registered as its targets.
C19_CreateListenerIsSafeToRetry ==
    /\ \A np \in NodePorts : Cardinality(GroupsByName(Aws, np)) <= 1
    /\ \A s \in Services :
            pass[s].pc = "assign" =>
                \E g \in targetGroups :
                    /\ g.arn = pass[s].targetArn
                    /\ g.port = NodePortOf(s)
                    /\ g.registered

====
